---- MODULE Spec2Model ----
(***************************************************************************)
(* State-machine model of the three OpenMP SpMM kernels of                  *)
(* src/cpu_spmm_v2.cpp: the row-parallel kernel OmpCsrSpmmT, the merge-path *)
(* kernel OmpMergeCsrmm and the nonzero-split kernel OmpNonzeroSplitCsrmm,  *)
(* together with the two path searches and the sequential carry-out fix-up. *)
(*                                                                          *)
(* The iterations of a kernel's "#pragma omp parallel for schedule(static)" *)
(* loop are dealt in contiguous chunks to the workers of the team; every    *)
(* worker runs its iterations one after another and the workers interleave  *)
(* freely.  Arithmetic is exact (integers).                                 *)
(*                                                                          *)
(* Specifications:                                                          *)
(*   Spec        one call of one kernel, row-major input                    *)
(*   FairSpec    Spec with every enabled step eventually taken              *)
(*   SpecTwice   a second call on the output buffer of the first            *)
(*   SpecShape   a second run on another matrix of the same shape           *)
(*   SpecLayout  one call under each combination of the layout flags, with  *)
(*               the transposing prepass of OmpCsrSpmmT                     *)
(*   SpecSizes   one call on buffers longer than the arguments imply        *)
(*   SpecDriver  RunTests: the reference, then each kernel's test function  *)
(*   SpecCapacity OmpMergeCsrmm with 256 threads and more                   *)
(*   SpecScalars RunTests under the alpha and beta of the command line      *)
(***************************************************************************)
EXTENDS Integers, Sequences, FiniteSets, TLC

\* Bounds of the model.
MaxRows == 3
MaxNonzeros == 3
MaxThreads == 3
MaxVectors == 2
NumCols == 2
MaxCalls == 2
MaxTimingIterations == 1
MaxSlack == 1
MaxExcess == 2
MaxAlpha == 2
MaxBeta == 1

\* memset(vector_y_out, -1, ...) of the harness: what Y holds before a call.
YPoison == -1

\* What a dead stack slot can hold once the runtime has reused it.
StaleWords == {0 - 7}

Kernels == {"rowpar", "merge", "nzsplit"}

Min(a, b) == IF a < b THEN a ELSE b
Max(a, b) == IF a > b THEN a ELSE b

VARIABLES
    kernel,             \* which kernel is called
    num_threads,        \* the num_threads argument
    team,               \* workers the OpenMP runtime actually delivers
    num_vectors,        \* the num_vectors argument
    num_rows,           \* a.num_rows
    row_offsets,        \* a.row_offsets, 0 .. num_rows
    g_output_row_major, \* the global layout flag read by OmpCsrSpmmT
    vector_y_out,       \* Y, 0 .. num_rows * num_vectors - 1
    phase,              \* "parallel", "fixup" or "returned"
    cur,                \* per worker: the loop iteration it is at
    pc,                 \* per worker: position inside the iteration
    thread_coord,       \* per worker: the iteration's local thread_coord
    thread_coord_end,   \* per worker: the iteration's local thread_coord_end
    running_total,      \* per worker: the stack slot holding running_total
    row_carry_out,      \* per tid
    value_carry_out,    \* per tid: the slot (worker) the saved pointer refers to
    fix_tid,            \* loop counter of the sequential fix-up
    \* history variables
    y_writes,           \* per element of Y: the <<worker, iteration>> overwrites
    fix_log,            \* the additions of the fix-up, in order
    y_log,              \* per row: the order of "ow" and "add" events
    nz_log,             \* per nonzero: the tids that multiplied it
    nz_pending,         \* per worker: nonzeros in the current running total
    nz_row,             \* per nonzero: the rows its total was attributed to
    coord_log,          \* per tid: start and end diagonal and coordinate
    \* the caller
    calls,              \* calls of the kernel made on this output buffer
    y_first,            \* Y as the previous call left it
    coord_first,        \* coord_log as the previous call left it
    \* the driver RunTests
    g_input_row_major,  \* the global input layout flag
    g_quiet,            \* the global set by --quiet
    timing_iterations,  \* repetitions of the re-populate and timing loops
    reference_vector_y_out, \* what SpmvGold computed, per row
    h_pc,               \* where the driver is
    h_test,             \* position in Tests of the kernel under test
    h_it,               \* loop counter of the re-populate / timing loop
    h_log,              \* what the driver has done, in order
    \* the dense operand
    x_row_major,        \* the buffer vector_x_row_major points to
    xt_index,           \* per worker: its private xt_index of the prepass
    x_writes,           \* history: per element of the buffer, the workers
                        \* that wrote it
    alpha,              \* main's scalars, --alpha and --beta
    beta

vars == <<kernel, num_threads, team, num_vectors, num_rows, row_offsets,
          g_output_row_major, vector_y_out, phase, cur, pc, thread_coord,
          thread_coord_end, running_total, row_carry_out, value_carry_out,
          fix_tid, y_writes, fix_log, y_log, nz_log, nz_pending,
          nz_row, coord_log, calls, y_first, coord_first,
          g_input_row_major, g_quiet, timing_iterations,
          reference_vector_y_out, h_pc, h_test, h_it, h_log, x_row_major,
          xt_index, x_writes, alpha, beta>>

\* what the caller keeps between the calls it makes
caller == <<calls, y_first, coord_first>>

\* the state of the driver
driver == <<g_quiet, timing_iterations, reference_vector_y_out, h_pc, h_test,
            h_it, h_log>>

\* what a kernel call reads and never assigns
inputs == <<kernel, num_threads, team, num_vectors, num_rows, row_offsets,
            g_output_row_major, g_input_row_major, caller, driver,
            x_row_major, xt_index, x_writes, alpha, beta>>

\* ------------------------------------------------------------------------
\* The CSR matrix and the dense operand
\* ------------------------------------------------------------------------

num_nonzeros == row_offsets[num_rows]

\* a.row_offsets + 1, as every caller passes it
row_end_offsets(x) == row_offsets[x + 1]

\* a.values and a.column_indices: distinct weights, columns in turn
values(k) == 2 ^ k
column_indices(k) == k % NumCols

\* the logical dense operand: the element of column c of the matrix (row c
\* of X) for vector v; distinct values when a kernel is called on its own,
\* the 10.0 RunTests fills X with when the driver runs
LogicalX(c, v) == IF h_pc = "kernel" THEN 1 + (c * num_vectors + v) ELSE 10

\* X as the caller supplies it, in the configured input layout
vector_x(j) ==
    IF g_input_row_major
    THEN LogicalX(j \div num_vectors, j % num_vectors)
    ELSE LogicalX(j % NumCols, j \div NumCols)

\* the row-major buffer the kernels read
vector_x_row_major(j) == x_row_major[j]

\* RunTests fills vector_x_row_major like vector_x when the input is row-major
FilledRowMajor == [j \in 0 .. NumCols * num_vectors - 1 |-> vector_x(j)]

Vecs == 0 .. num_vectors - 1
Rows == 0 .. num_rows - 1
Zeros == [i \in Vecs |-> 0]

\* CountingInputIterator(0)[n]
nonzero_indices(n) == 0 + n

ValidCsr(n, ro) ==
    /\ ro[0] = 0
    /\ \A r \in 0 .. n - 1 : ro[r] <= ro[r + 1]

\* ------------------------------------------------------------------------
\* Path searches
\* ------------------------------------------------------------------------

\* the pivot test with < for <=
RECURSIVE MergeBisect_strict(_, _, _)
MergeBisect_strict(diagonal, x_min, x_max) ==
    IF x_min < x_max
    THEN LET x_pivot == (x_min + x_max) \div 2 IN
         IF row_end_offsets(x_pivot) < nonzero_indices(diagonal - x_pivot - 1)
         THEN MergeBisect_strict(diagonal, x_pivot + 1, x_max)
         ELSE MergeBisect_strict(diagonal, x_min, x_pivot)
    ELSE x_min

RECURSIVE MergeBisect(_, _, _)
MergeBisect(diagonal, x_min, x_max) ==
    IF x_min < x_max
    THEN LET x_pivot == (x_min + x_max) \div 2 IN
         IF row_end_offsets(x_pivot) <= nonzero_indices(diagonal - x_pivot - 1)
         THEN MergeBisect(diagonal, x_pivot + 1, x_max)
         ELSE MergeBisect(diagonal, x_min, x_pivot)
    ELSE x_min

\* y taken from the upper end of the search range
MergePathSearch_yfrommax(diagonal, a_len, b_len) ==
    LET x_min == MergeBisect(diagonal, Max(diagonal - b_len, 0), Min(diagonal, a_len))
    IN  [x |-> Min(x_min, a_len), y |-> diagonal - Min(diagonal, a_len)]

MergePathSearch(diagonal, a_len, b_len) ==
    LET x_min == MergeBisect(diagonal, Max(diagonal - b_len, 0), Min(diagonal, a_len))
    IN  [x |-> Min(x_min, a_len), y |-> diagonal - x_min]

\* the pivot test with < for <=
RECURSIVE RowBisect_strict(_, _, _)
RowBisect_strict(y, x_min, x_max) ==
    IF x_min < x_max
    THEN LET x_pivot == (x_min + x_max) \div 2 IN
         IF row_end_offsets(x_pivot) < nonzero_indices(y - 1)
         THEN RowBisect_strict(y, x_pivot + 1, x_max)
         ELSE RowBisect_strict(y, x_min, x_pivot)
    ELSE x_min

RECURSIVE RowBisect(_, _, _)
RowBisect(y, x_min, x_max) ==
    IF x_min < x_max
    THEN LET x_pivot == (x_min + x_max) \div 2 IN
         IF row_end_offsets(x_pivot) <= nonzero_indices(y - 1)
         THEN RowBisect(y, x_pivot + 1, x_max)
         ELSE RowBisect(y, x_min, x_pivot)
    ELSE x_min

RowPathSearch(y, a_len) ==
    [x |-> Min(RowBisect(y, 0, a_len), a_len), y |-> y]

\* ------------------------------------------------------------------------
\* Partitioning
\* ------------------------------------------------------------------------

num_merge_items == num_rows + num_nonzeros

MergeItemsPerThread_floor == num_merge_items \div num_threads

MergeItemsPerThread == (num_merge_items + num_threads - 1) \div num_threads

StartDiagonal_overlap(tid) == Max(Min(MergeItemsPerThread * tid, num_merge_items) - 1, 0)

StartDiagonal(tid) == Min(MergeItemsPerThread * tid, num_merge_items)

\* every thread runs to the end of the path
EndDiagonal_total(tid) == num_merge_items

EndDiagonal(tid) == Min(StartDiagonal(tid) + MergeItemsPerThread, num_merge_items)

NonzerosPerThread == (num_nonzeros + num_threads - 1) \div num_threads

StartNonzero_rowaligned(tid) == row_offsets[Min(tid, num_rows)]

StartNonzero(tid) == Min(NonzerosPerThread * tid, num_nonzeros)

EndNonzero(tid) == Min(StartNonzero(tid) + NonzerosPerThread, num_nonzeros)

\* schedule(static): the loop's iterations in contiguous chunks, one per worker
Workers == 0 .. team - 1
Tids == 0 .. num_threads - 1
LoopCount ==
    IF phase = "prepass" THEN NumCols
    ELSE IF kernel = "rowpar" THEN num_rows ELSE num_threads

\* the chunk of worker w in a static loop of n iterations
StaticStart(n, w) ==
    LET q == n \div team
        r == n % team
    IN  IF w < r THEN w * (q + 1) ELSE w * q + r

StaticEnd(n, w) ==
    LET q == n \div team
        r == n % team
    IN  StaticStart(n, w) + (IF w < r THEN q + 1 ELSE q)

ChunkStart(w) == StaticStart(LoopCount, w)

ChunkEnd(w) == StaticEnd(LoopCount, w)

BarrierReached_nowait == TRUE

BarrierReached_allthreads ==
    Cardinality({w \in Workers : cur[w] = ChunkEnd(w)}) = num_threads

\* the implicit barrier that ends the parallel loop
BarrierReached == \A w \in Workers : cur[w] = ChunkEnd(w)

\* ------------------------------------------------------------------------
\* Loop bodies
\* ------------------------------------------------------------------------

Accumulate_nostride(total, k) ==
    [i \in Vecs |->
        total[i] + values(k) * vector_x_row_major(column_indices(k) + i)]

\* running_total[i] += val * tmp[i], for one nonzero
Accumulate(total, k) ==
    [i \in Vecs |->
        total[i] + values(k) * vector_x_row_major(column_indices(k) * num_vectors + i)]

RECURSIVE ConsumeNonzeros_inclusive(_, _, _, _)
ConsumeNonzeros_inclusive(total, y, limit, seen) ==
    IF y <= limit
    THEN ConsumeNonzeros_inclusive(Accumulate(total, y), y + 1, limit, Append(seen, y))
    ELSE [total |-> total, y |-> y, seen |-> seen]

\* for (; thread_coord.y < limit; ++thread_coord.y) accumulate;
\* seen lists the nonzeros multiplied, in order
RECURSIVE ConsumeNonzeros(_, _, _, _)
ConsumeNonzeros(total, y, limit, seen) ==
    IF y < limit
    THEN ConsumeNonzeros(Accumulate(total, y), y + 1, limit, Append(seen, y))
    ELSE [total |-> total, y |-> y, seen |-> seen]

\* the element of Y that holds vector i of row `row`; the two load-balanced
\* kernels always write row-major, OmpCsrSpmmT follows g_output_row_major
RowMajorIndex(row, i) == row * num_vectors + i
ColMajorIndex(row, i) == row + i * num_rows
OutIndex(row, i, row_major) ==
    IF row_major THEN RowMajorIndex(row, i) ELSE ColMajorIndex(row, i)

\* tmp[i] = total[i] over one row of Y
Overwrite(y_out, row, total, row_major) ==
    [j \in DOMAIN y_out |->
        IF \E i \in Vecs : OutIndex(row, i, row_major) = j
        THEN total[CHOOSE i \in Vecs : OutIndex(row, i, row_major) = j]
        ELSE y_out[j]]

\* tmp[i] += val[i] over one row of Y
AddInto(y_out, row, val) ==
    [j \in DOMAIN y_out |->
        IF \E i \in Vecs : RowMajorIndex(row, i) = j
        THEN y_out[j] + val[CHOOSE i \in Vecs : RowMajorIndex(row, i) = j]
        ELSE y_out[j]]

\* the last row is taken for no row
CarryOutValid_notlast(tid) == row_carry_out[tid] < num_rows - 1

\* OffsetT row_carry_out[256]; ValueT* value_carry_out[256];
CarryOutCapacity == 256

CarryOutValid_le(tid) == row_carry_out[tid] <= num_rows

\* the fix-up's test on a recorded boundary row
CarryOutValid(tid) == row_carry_out[tid] < num_rows

FixUpCount_short == num_threads - 2

\* the fix-up's loop bound
FixUpCount == num_threads - 1

\* value_carry_out[tid][i]: the pointer refers to a running_total whose
\* lifetime ended with its loop iteration.  The read yields what the slot
\* holds now (the total of the last iteration that used it) or stale words.
NoSlot == 0 - 1
NoRow == 0 - 1
DanglingRead(slot) ==
    (IF slot \in Workers THEN {running_total[slot]} ELSE {})
        \cup {[i \in Vecs |-> s] : s \in StaleWords}

\* ------------------------------------------------------------------------
\* Initial states: one call of one kernel
\* ------------------------------------------------------------------------

NoCoord == [sd |-> NoRow, ed |-> NoRow, start |-> [x |-> NoRow, y |-> NoRow],
            end |-> [x |-> NoRow, y |-> NoRow]]

\* the arguments of a call: the thread count, the team the runtime delivers
\* for it, the number of vectors and a valid CSR matrix
InitArguments ==
    /\ num_threads \in 1 .. MaxThreads
    /\ team \in 1 .. num_threads
    /\ num_vectors \in 1 .. MaxVectors
    /\ num_rows \in 1 .. MaxRows
    /\ row_offsets \in {ro \in [0 .. num_rows -> 0 .. MaxNonzeros] : ValidCsr(num_rows, ro)}

\* the locals of a call at its entry, and an empty history
InitLocals ==
    /\ cur = [w \in Workers |-> ChunkStart(w)]
    /\ pc = [w \in Workers |-> "begin"]
    /\ thread_coord = [w \in Workers |-> [x |-> 0, y |-> 0]]
    /\ thread_coord_end = [w \in Workers |-> [x |-> 0, y |-> 0]]
    /\ running_total = [w \in Workers |-> Zeros]
    /\ row_carry_out = [t \in Tids |-> NoRow]
    /\ value_carry_out = [t \in Tids |-> NoSlot]
    /\ fix_tid = 0
    /\ y_writes = [j \in 0 .. num_rows * num_vectors - 1 |-> <<>>]
    /\ fix_log = <<>>
    /\ y_log = [r \in Rows |-> <<>>]
    /\ nz_log = [k \in 0 .. num_nonzeros - 1 |-> <<>>]
    /\ nz_pending = [w \in Workers |-> {}]
    /\ nz_row = [k \in 0 .. num_nonzeros - 1 |-> <<>>]
    /\ coord_log = [t \in Tids |-> NoCoord]

\* a first call, on a buffer nothing was kept of
InitCaller ==
    /\ calls = 1
    /\ y_first = <<>>
    /\ coord_first = <<>>

\* the kernel is called on its own, not by the driver
InitNoDriver ==
    /\ g_quiet = FALSE
    /\ timing_iterations = 0
    /\ reference_vector_y_out = <<>>
    /\ h_pc = "kernel"
    /\ h_test = 0
    /\ h_it = 0
    /\ h_log = <<>>
    /\ alpha = 1
    /\ beta = 0

Init ==
    /\ kernel \in Kernels
    /\ InitNoDriver
    /\ InitArguments
    /\ g_output_row_major \in (IF kernel = "rowpar" THEN BOOLEAN ELSE {TRUE})
    /\ g_input_row_major = TRUE
    /\ x_row_major = FilledRowMajor
    /\ xt_index = [w \in Workers |-> 0]
    /\ x_writes = [j \in DOMAIN x_row_major |-> {}]
    /\ vector_y_out = [j \in 0 .. num_rows * num_vectors - 1 |-> YPoison]
    /\ phase = "parallel"
    /\ InitLocals
    /\ InitCaller

\* ------------------------------------------------------------------------
\* History bookkeeping
\* ------------------------------------------------------------------------

SeqToSet(q) == {q[n] : n \in 1 .. Len(q)}

\* every element of `row` gets one more overwrite by <<worker, iteration>>
LogWrites(row, row_major, w, it) ==
    [j \in DOMAIN y_writes |->
        IF \E i \in Vecs : OutIndex(row, i, row_major) = j
        THEN Append(y_writes[j], <<w, it>>)
        ELSE y_writes[j]]

LogRowEvent(row, ev) ==
    [r \in DOMAIN y_log |-> IF r = row THEN Append(y_log[r], ev) ELSE y_log[r]]

\* tid multiplied the nonzeros of seen
LogMultipliedBy(seen, tid) ==
    [k \in DOMAIN nz_log |->
        nz_log[k] \o [n \in 1 .. Len(SelectSeq(seen, LAMBDA m : m = k)) |-> tid]]

\* the running total holding the nonzeros of ks goes to row `row`
LogAttributed(ks, row) ==
    [k \in DOMAIN nz_row |-> IF k \in ks THEN Append(nz_row[k], row) ELSE nz_row[k]]

\* ------------------------------------------------------------------------
\* The parallel phase
\* ------------------------------------------------------------------------

\* worker w still has an iteration of its chunk to run
Running(w) == cur[w] < ChunkEnd(w)

history == <<y_writes, fix_log, y_log, nz_log, nz_pending, nz_row, coord_log>>

\* OmpMergeCsrmm: the two diagonal searches of iteration tid = cur[w]
MergeSearchStep(w) ==
    /\ kernel = "merge" /\ Running(w) /\ pc[w] = "begin"
    /\ LET tid == cur[w]
           start == MergePathSearch(StartDiagonal(tid), num_rows, num_nonzeros)
           end == MergePathSearch(EndDiagonal(tid), num_rows, num_nonzeros)
       IN  /\ thread_coord' = [thread_coord EXCEPT ![w] = start]
           /\ thread_coord_end' = [thread_coord_end EXCEPT ![w] = end]
           /\ coord_log' = [coord_log EXCEPT ![tid] =
                  [sd |-> StartDiagonal(tid), ed |-> EndDiagonal(tid),
                   start |-> start, end |-> end]]
    /\ running_total' = [running_total EXCEPT ![w] = Zeros]
    /\ nz_pending' = [nz_pending EXCEPT ![w] = {}]
    /\ pc' = [pc EXCEPT ![w] = "rows"]
    /\ UNCHANGED <<inputs, vector_y_out, phase, cur, row_carry_out,
                   value_carry_out, fix_tid, y_writes, fix_log, y_log, nz_log,
                   nz_row>>

\* OmpNonzeroSplitCsrmm: the two row searches of iteration tid = cur[w]
NonzeroSplitSearchStep(w) ==
    /\ kernel = "nzsplit" /\ Running(w) /\ pc[w] = "begin"
    /\ LET tid == cur[w]
           start == RowPathSearch(StartNonzero(tid), num_rows)
           end == RowPathSearch(EndNonzero(tid), num_rows)
       IN  /\ thread_coord' = [thread_coord EXCEPT ![w] = start]
           /\ thread_coord_end' = [thread_coord_end EXCEPT ![w] = end]
           /\ coord_log' = [coord_log EXCEPT ![tid] =
                  [sd |-> StartNonzero(tid), ed |-> EndNonzero(tid),
                   start |-> start, end |-> end]]
    /\ running_total' = [running_total EXCEPT ![w] = Zeros]
    /\ nz_pending' = [nz_pending EXCEPT ![w] = {}]
    /\ pc' = [pc EXCEPT ![w] = "rows"]
    /\ UNCHANGED <<inputs, vector_y_out, phase, cur, row_carry_out,
                   value_carry_out, fix_tid, y_writes, fix_log, y_log, nz_log,
                   nz_row>>

\* one pass of "Consume whole rows": the rest of row thread_coord.x, then the
\* overwrite of that row of Y and the reset of the running total
ConsumeRow(w) ==
    /\ kernel \in {"merge", "nzsplit"} /\ Running(w) /\ pc[w] = "rows"
    /\ thread_coord[w].x < thread_coord_end[w].x
    /\ LET tid == cur[w]
           x == thread_coord[w].x
           got == ConsumeNonzeros(running_total[w], thread_coord[w].y,
                                  row_end_offsets(x), <<>>)
       IN  /\ vector_y_out' = Overwrite(vector_y_out, x, got.total, TRUE)
           /\ running_total' = [running_total EXCEPT ![w] = Zeros]
           /\ thread_coord' = [thread_coord EXCEPT ![w] = [x |-> x + 1, y |-> got.y]]
           /\ y_writes' = LogWrites(x, TRUE, w, tid)
           /\ y_log' = LogRowEvent(x, "ow")
           /\ nz_log' = LogMultipliedBy(got.seen, tid)
           /\ nz_row' = LogAttributed(nz_pending[w] \cup SeqToSet(got.seen), x)
           /\ nz_pending' = [nz_pending EXCEPT ![w] = {}]
    /\ UNCHANGED <<inputs, phase, cur, pc, thread_coord_end, row_carry_out,
                   value_carry_out, fix_tid, fix_log, coord_log>>

\* "Consume partial portion of thread's last row"
ConsumePartial(w) ==
    /\ kernel \in {"merge", "nzsplit"} /\ Running(w) /\ pc[w] = "rows"
    /\ ~(thread_coord[w].x < thread_coord_end[w].x)
    /\ LET tid == cur[w]
           got == ConsumeNonzeros(running_total[w], thread_coord[w].y,
                                  thread_coord_end[w].y, <<>>)
       IN  /\ running_total' = [running_total EXCEPT ![w] = got.total]
           /\ thread_coord' = [thread_coord EXCEPT ![w].y = got.y]
           /\ nz_log' = LogMultipliedBy(got.seen, tid)
           /\ nz_pending' = [nz_pending EXCEPT ![w] = @ \cup SeqToSet(got.seen)]
    /\ pc' = [pc EXCEPT ![w] = "save"]
    /\ UNCHANGED <<inputs, vector_y_out, phase, cur, thread_coord_end,
                   row_carry_out, value_carry_out, fix_tid, y_writes, fix_log,
                   y_log, nz_row, coord_log>>

\* the carry-out stored in the slot of the next iteration
SaveCarryOut_nextslot(w) ==
    /\ kernel \in {"merge", "nzsplit"} /\ Running(w) /\ pc[w] = "save"
    /\ LET tid == (cur[w] + 1) % num_threads IN
           /\ row_carry_out' = [row_carry_out EXCEPT ![tid] = thread_coord_end[w].x]
           /\ value_carry_out' = [value_carry_out EXCEPT ![tid] = w]
           /\ nz_row' = LogAttributed(nz_pending[w], thread_coord_end[w].x)
    /\ nz_pending' = [nz_pending EXCEPT ![w] = {}]
    /\ cur' = [cur EXCEPT ![w] = @ + 1]
    /\ pc' = [pc EXCEPT ![w] = "begin"]
    /\ UNCHANGED <<inputs, vector_y_out, phase, thread_coord, thread_coord_end,
                   running_total, fix_tid, y_writes, fix_log, y_log, nz_log,
                   coord_log>>

\* "Save carry-outs"; the iteration ends and the worker takes its next one
SaveCarryOut(w) ==
    /\ kernel \in {"merge", "nzsplit"} /\ Running(w) /\ pc[w] = "save"
    /\ cur[w] < CarryOutCapacity
    /\ LET tid == cur[w] IN
           /\ row_carry_out' = [row_carry_out EXCEPT ![tid] = thread_coord_end[w].x]
           /\ value_carry_out' = [value_carry_out EXCEPT ![tid] = w]
           /\ nz_row' = LogAttributed(nz_pending[w], thread_coord_end[w].x)
    /\ nz_pending' = [nz_pending EXCEPT ![w] = {}]
    /\ cur' = [cur EXCEPT ![w] = @ + 1]
    /\ pc' = [pc EXCEPT ![w] = "begin"]
    /\ UNCHANGED <<inputs, vector_y_out, phase, thread_coord, thread_coord_end,
                   running_total, fix_tid, y_writes, fix_log, y_log, nz_log,
                   coord_log>>

\* OmpCsrSpmmT: one iteration of the row loop
RowParallelStep(w) ==
    /\ kernel = "rowpar" /\ phase # "prepass" /\ Running(w)
    /\ LET row == cur[w]
           got == ConsumeNonzeros(Zeros, row_offsets[row], row_offsets[row + 1], <<>>)
       IN  /\ vector_y_out' = Overwrite(vector_y_out, row, got.total, g_output_row_major)
           /\ y_writes' = LogWrites(row, g_output_row_major, w, row)
           /\ y_log' = LogRowEvent(row, "ow")
    /\ cur' = [cur EXCEPT ![w] = @ + 1]
    /\ UNCHANGED <<inputs, phase, pc, thread_coord, thread_coord_end,
                   running_total, row_carry_out, value_carry_out, fix_tid,
                   fix_log, nz_log, nz_pending, nz_row, coord_log>>

\* ------------------------------------------------------------------------
\* After the parallel loop
\* ------------------------------------------------------------------------

\* the loop's implicit barrier; OmpCsrSpmmT returns, the others fix up
Join ==
    /\ phase = "parallel" /\ BarrierReached
    /\ phase' = IF kernel = "rowpar" THEN "returned" ELSE "fixup"
    /\ UNCHANGED <<inputs, vector_y_out, cur, pc, thread_coord, thread_coord_end,
                   running_total, row_carry_out, value_carry_out, fix_tid,
                   history>>

\* one iteration of "Carry-out fix-up"
FixUp ==
    /\ kernel \in {"merge", "nzsplit"}
    /\ phase = "fixup" /\ fix_tid < FixUpCount
    /\ fix_tid < CarryOutCapacity
    /\ IF CarryOutValid(fix_tid)
       THEN \E val \in DanglingRead(value_carry_out[fix_tid]) :
              LET row == row_carry_out[fix_tid] IN
                /\ vector_y_out' = AddInto(vector_y_out, row, val)
                /\ fix_log' = Append(fix_log, [tid |-> fix_tid, row |-> row, val |-> val])
                /\ y_log' = LogRowEvent(row, "add")
       ELSE UNCHANGED <<vector_y_out, fix_log, y_log>>
    /\ fix_tid' = fix_tid + 1
    /\ UNCHANGED <<inputs, phase, cur, pc, thread_coord, thread_coord_end,
                   running_total, row_carry_out, value_carry_out, y_writes,
                   nz_log, nz_pending, nz_row, coord_log>>

\* the kernel returns
Return ==
    /\ phase = "fixup" /\ ~(fix_tid < FixUpCount)
    /\ phase' = "returned"
    /\ UNCHANGED <<inputs, vector_y_out, cur, pc, thread_coord, thread_coord_end,
                   running_total, row_carry_out, value_carry_out, fix_tid,
                   history>>

Next ==
    \/ \E w \in Workers : MergeSearchStep(w)
    \/ \E w \in Workers : NonzeroSplitSearchStep(w)
    \/ \E w \in Workers : ConsumeRow(w)
    \/ \E w \in Workers : ConsumePartial(w)
    \/ \E w \in Workers : SaveCarryOut(w)
    \/ \E w \in Workers : RowParallelStep(w)
    \/ Join
    \/ FixUp
    \/ Return

Spec == Init /\ [][Next]_vars

\* ------------------------------------------------------------------------
\* The product the kernels are to compute
\* ------------------------------------------------------------------------

\* sum over the nonzeros k of from .. to - 1 of values[k] * X[column_indices[k] * num_vectors + v]
RECURSIVE SumNonzeros(_, _, _)
SumNonzeros(from, to, v) ==
    IF from < to
    THEN values(from) * LogicalX(column_indices(from), v)
             + SumNonzeros(from + 1, to, v)
    ELSE 0

RowProduct(r, v) == SumNonzeros(row_offsets[r], row_offsets[r + 1], v)

RowOf(k) == CHOOSE r \in Rows : row_offsets[r] <= k /\ k < row_offsets[r + 1]

Returned == phase = "returned"
LoadBalanced == kernel \in {"merge", "nzsplit"}

\* C1: when OmpMergeCsrmm returns, every Y[r*num_vectors + v] is the sum over
\* row r's nonzeros of values[k] * X[column_indices[k]*num_vectors + v].
C1_MergeEqualsReference ==
    (kernel = "merge" /\ Returned) =>
        \A r \in Rows, v \in Vecs : vector_y_out[RowMajorIndex(r, v)] = RowProduct(r, v)

\* C2: when OmpNonzeroSplitCsrmm returns, every Y[r*num_vectors + v] is the
\* sum over row r's nonzeros of values[k] * X[column_indices[k]*num_vectors + v].
C2_NonzeroSplitEqualsReference ==
    (kernel = "nzsplit" /\ Returned) =>
        \A r \in Rows, v \in Vecs : vector_y_out[RowMajorIndex(r, v)] = RowProduct(r, v)

\* ------------------------------------------------------------------------
\* OmpCsrSpmmT
\* ------------------------------------------------------------------------

\* the worker whose block of the static schedule holds iteration it
OwnerOf(it) == CHOOSE w \in Workers : ChunkStart(w) <= it /\ it < ChunkEnd(w)

\* C3: with row-major input and output, OmpCsrSpmmT writes every row exactly
\* once, by the worker that owns the row's block, with the product of that row,
\* and never runs a fix-up.
C3_RowParallelEqualsReference ==
    (kernel = "rowpar" /\ g_output_row_major) =>
        /\ fix_log = <<>> /\ fix_tid = 0 /\ phase # "fixup"
        /\ \A r \in Rows, v \in Vecs :
              LET j == RowMajorIndex(r, v) IN
                /\ Len(y_writes[j]) <= 1
                /\ \A n \in 1 .. Len(y_writes[j]) :
                      /\ y_writes[j][n] = <<OwnerOf(r), r>>
                      /\ vector_y_out[j] = RowProduct(r, v)
                /\ Returned => Len(y_writes[j]) = 1

C3_Witness ==
    /\ kernel = "rowpar" /\ g_output_row_major /\ Returned
    /\ team > num_rows /\ num_rows >= 2 /\ num_vectors >= 2
    /\ \E r \in Rows : row_offsets[r + 1] - row_offsets[r] >= 2
    /\ \A r \in Rows, v \in Vecs : vector_y_out[RowMajorIndex(r, v)] = RowProduct(r, v)

\* ------------------------------------------------------------------------
\* Row ownership
\* ------------------------------------------------------------------------

\* the iterations (tids) that overwrote row r
Overwriters(r) == {y_writes[RowMajorIndex(r, 0)][n][2] :
                      n \in 1 .. Len(y_writes[RowMajorIndex(r, 0)])}

\* the positions of fix_log that add into row r
AddsInto(r) == {n \in 1 .. Len(fix_log) : fix_log[n].row = r}

\* the positions of fix_log that add the carry-out of tid
AddsOf(tid) == {n \in 1 .. Len(fix_log) : fix_log[n].tid = tid}

\* C4: in the merge-path and nonzero-split kernels every row is overwritten
\* by exactly one thread during the parallel phase.
C4_OverwrittenByExactlyOne ==
    LoadBalanced =>
        \A r \in Rows, v \in Vecs :
            /\ Len(y_writes[RowMajorIndex(r, v)]) <= 1
            /\ phase # "parallel" => Len(y_writes[RowMajorIndex(r, v)]) = 1

\* C5 as stated: for every row at most one thread other than the overwriting
\* one has its carry-out added into the row by the fix-up.
C5_AtMostOneCarryPerRow ==
    LoadBalanced =>
        \A r \in Rows :
            Cardinality({fix_log[n].tid : n \in AddsInto(r)} \ Overwriters(r)) <= 1

\* C5 amended: each thread 0 .. num_threads-2 whose recorded row is a valid
\* row has its carry-out added exactly once per call, into that row only and
\* never into a row it overwrote itself; a row may take the carry-outs of
\* several threads; the last thread's carry-out is never added.
C5_EachCarryOnceIntoItsRow ==
    LoadBalanced =>
        /\ \A n \in 1 .. Len(fix_log) :
              /\ fix_log[n].tid \in 0 .. num_threads - 2
              /\ fix_log[n].row = row_carry_out[fix_log[n].tid]
              /\ fix_log[n].row = coord_log[fix_log[n].tid].end.x
              /\ fix_log[n].row \in Rows => fix_log[n].tid \notin Overwriters(fix_log[n].row)
        /\ \A t \in Tids : Cardinality(AddsOf(t)) <= 1
        /\ Returned =>
              \A t \in 0 .. num_threads - 2 :
                  row_carry_out[t] \in Rows => Cardinality(AddsOf(t)) = 1

C5_Witness ==
    /\ LoadBalanced /\ Returned
    /\ \E r \in Rows : Cardinality(AddsInto(r)) >= 2 /\ Overwriters(r) # {}

\* ------------------------------------------------------------------------
\* Races and ordering
\* ------------------------------------------------------------------------

AllIterationsDone == \A w \in Workers : cur[w] = ChunkEnd(w)

\* C6: in each kernel no element of Y is written by two different threads
\* during the parallel phase (the steps of the parallel phase never read Y:
\* the only read of Y is the += of FixUp).
C6_NoElementWrittenByTwoThreads ==
    \A j \in DOMAIN y_writes :
        \A n, m \in 1 .. Len(y_writes[j]) : y_writes[j][n] = y_writes[j][m]

C6_Witness ==
    /\ kernel = "merge" /\ team >= 2 /\ phase = "parallel"
    /\ \E j1, j2 \in DOMAIN y_writes :
          /\ y_writes[j1] # <<>> /\ y_writes[j2] # <<>>
          /\ y_writes[j1][1][1] # y_writes[j2][1][1]
    /\ \E w \in Workers : Running(w)

\* C7: every fix-up addition happens after every thread has finished its
\* overwrites and saved its carry-out; no overwrite of a row follows an
\* addition into it.
C7_FixUpAfterBarrier ==
    LoadBalanced =>
        /\ (phase # "parallel" \/ fix_tid > 0 \/ fix_log # <<>>) =>
              /\ AllIterationsDone
              /\ \A t \in Tids : row_carry_out[t] # NoRow /\ value_carry_out[t] # NoSlot
        /\ \A r \in Rows :
              \A n, m \in 1 .. Len(y_log[r]) :
                  (y_log[r][n] = "add" /\ y_log[r][m] = "ow") => m < n

C7_Witness ==
    /\ LoadBalanced /\ Returned /\ team >= 2
    /\ \E r \in Rows : y_log[r] = <<"ow", "add">>

\* ------------------------------------------------------------------------
\* Partition and accumulation
\* ------------------------------------------------------------------------

WorkItems == IF kernel = "merge" THEN num_merge_items ELSE num_nonzeros

\* C8: thread 0 starts at 0, thread t+1 starts at the diagonal (nonzero) and
\* coordinate where thread t ends, the last thread ends at the total.
C8_RangesTileTheWork ==
    LoadBalanced =>
        \A t \in Tids :
            coord_log[t] # NoCoord =>
                /\ coord_log[t].sd <= coord_log[t].ed
                /\ t = 0 => coord_log[t].sd = 0
                /\ t = num_threads - 1 => coord_log[t].ed = WorkItems
                /\ (t + 1 \in Tids /\ coord_log[t + 1] # NoCoord) =>
                      /\ coord_log[t + 1].sd = coord_log[t].ed
                      /\ coord_log[t + 1].start = coord_log[t].end

C8_Witness ==
    /\ kernel = "merge" /\ Returned
    /\ num_threads = 3 /\ num_merge_items % num_threads # 0
    /\ \A t \in Tids : coord_log[t].sd < coord_log[t].ed

\* the thread by whose carry-out nonzero k reaches its row
ByCarryOut(k) ==
    /\ Len(nz_log[k]) = 1
    /\ nz_log[k][1] \notin Overwriters(RowOf(k))

\* C9: every nonzero is multiplied by exactly one thread, exactly once, and the
\* running total it went into is attributed to the row that contains it.
C9_EachNonzeroOnce ==
    LoadBalanced =>
        \A k \in DOMAIN nz_log :
            /\ Len(nz_log[k]) <= 1
            /\ Len(nz_row[k]) <= Len(nz_log[k])
            /\ \A n \in 1 .. Len(nz_row[k]) : nz_row[k][n] = RowOf(k)
            /\ phase # "parallel" => Len(nz_log[k]) = 1 /\ Len(nz_row[k]) = 1

C9_Witness ==
    /\ LoadBalanced /\ Returned /\ num_nonzeros >= 3
    /\ \E k \in DOMAIN nz_log : ByCarryOut(k)
    /\ \E k \in DOMAIN nz_log : ~ByCarryOut(k)

\* C10: every row the fix-up adds into is a row of the matrix; a thread whose
\* recorded boundary row is num_rows contributes nothing.
C10_FixUpTargetsValid ==
    LoadBalanced =>
        /\ \A n \in 1 .. Len(fix_log) : fix_log[n].row \in Rows
        /\ \A t \in Tids : row_carry_out[t] = num_rows => AddsOf(t) = {}

C10_Witness ==
    /\ LoadBalanced /\ Returned /\ num_threads > num_rows
    /\ fix_log # <<>>
    /\ \E t \in 0 .. num_threads - 2 : row_carry_out[t] = num_rows

\* ------------------------------------------------------------------------
\* Boundary scenarios and the skipped carry-out
\* ------------------------------------------------------------------------

\* C11: for a 1x1 matrix with one nonzero the merge-path and nonzero-split
\* kernels leave Y[0] = values[0] * X[0] for each vector and the fix-up adds
\* nothing: no thread 0 .. num_threads-2 holds a carry-out for a valid row.
C11_OneByOneWithoutFixUp ==
    (LoadBalanced /\ num_rows = 1 /\ num_nonzeros = 1 /\ Returned) =>
        /\ \A v \in Vecs :
              vector_y_out[RowMajorIndex(0, v)]
                  = values(0) * (1 + (column_indices(0) * num_vectors + v))
        /\ fix_log = <<>>
        /\ \A t \in 0 .. num_threads - 2 : row_carry_out[t] \notin Rows

\* C20: in both load-balanced kernels the last thread ends its range at row
\* coordinate num_rows, so the carry-out the fix-up skips holds no
\* contribution to any row.
C20_LastThreadEndsAtNumRows ==
    LoadBalanced =>
        LET last == num_threads - 1 IN
          /\ coord_log[last] # NoCoord => coord_log[last].end.x = num_rows
          /\ phase # "parallel" =>
                /\ row_carry_out[last] = num_rows
                /\ \A k \in DOMAIN nz_log :
                      nz_log[k] = <<last>> => last \in Overwriters(RowOf(k))

\* ------------------------------------------------------------------------
\* Schedule independence
\* ------------------------------------------------------------------------

\* the coordinates iteration tid computes, as a function of the inputs alone
CoordOf(tid) ==
    IF kernel = "merge"
    THEN [start |-> MergePathSearch(StartDiagonal(tid), num_rows, num_nonzeros),
          end |-> MergePathSearch(EndDiagonal(tid), num_rows, num_nonzeros)]
    ELSE [start |-> RowPathSearch(StartNonzero(tid), num_rows),
          end |-> RowPathSearch(EndNonzero(tid), num_rows)]

\* the running total iteration tid holds when it saves its carry-out
CarryOutOf(tid, v) ==
    LET c == CoordOf(tid)
        from == IF c.start.x < c.end.x
                THEN Max(c.start.y, row_offsets[c.end.x])
                ELSE c.start.y
    IN  SumNonzeros(from, c.end.y, v)

\* the carry-outs of iterations 0 .. t recorded for row r
RECURSIVE CarrySum(_, _, _)
CarrySum(t, r, v) ==
    IF t < 0 THEN 0
    ELSE CarrySum(t - 1, r, v)
             + (IF CoordOf(t).end.x = r THEN CarryOutOf(t, v) ELSE 0)

\* what a call leaves in Y(r, v) when every carry-out is added as it was saved
ScheduleFreeY(r, v) ==
    LET owners == {t \in Tids : CoordOf(t).start.x <= r /\ r < CoordOf(t).end.x}
        base == IF owners = {} THEN YPoison
                ELSE LET c == CoordOf(CHOOSE t \in owners : TRUE)
                         from == IF r = c.start.x
                                 THEN Max(c.start.y, row_offsets[r])
                                 ELSE row_offsets[r]
                     IN  SumNonzeros(from, row_offsets[r + 1], v)
    IN  base + CarrySum(num_threads - 2, r, v)

\* C15: in the merge-path and nonzero-split kernels every iteration's start and
\* end coordinates, and the contents of Y when the call returns, are functions
\* of (matrix, X, num_vectors, num_threads) alone: the same in every call and
\* under every interleaving of the parallel phase.
C15_ScheduleIndependent ==
    LoadBalanced =>
        /\ \A tid \in Tids :
              coord_log[tid] # NoCoord =>
                  /\ coord_log[tid].start = CoordOf(tid).start
                  /\ coord_log[tid].end = CoordOf(tid).end
        /\ Returned =>
              \A r \in Rows, v \in Vecs :
                  vector_y_out[RowMajorIndex(r, v)] = ScheduleFreeY(r, v)

\* ------------------------------------------------------------------------
\* Termination
\* ------------------------------------------------------------------------

\* every worker of the team is scheduled and the caller runs the fix-up: a
\* step that can be taken is eventually taken
FairSpec == Spec /\ WF_vars(Next)

\* C16: every kernel call on a valid CSR matrix with num_threads >= 1
\* terminates: the searches and loops of every iteration end, every worker
\* reaches the barrier, the fix-up finishes and the call returns.
C16_CallTerminates == <>Returned

C16_Witness ==
    /\ Returned /\ LoadBalanced /\ num_threads > 1 /\ team < num_threads
    /\ fix_tid = FixUpCount /\ Len(fix_log) > 0
    /\ \A tid \in Tids : coord_log[tid] # NoCoord

\* ------------------------------------------------------------------------
\* Repeated calls on one output buffer
\* ------------------------------------------------------------------------

\* the entry of a call of kernel: its locals start afresh
StartCall ==
    /\ phase' = "parallel"
    /\ cur' = [w \in Workers |-> ChunkStart(w)]
    /\ pc' = [w \in Workers |-> "begin"]
    /\ thread_coord' = [w \in Workers |-> [x |-> 0, y |-> 0]]
    /\ thread_coord_end' = [w \in Workers |-> [x |-> 0, y |-> 0]]
    /\ running_total' = [w \in Workers |-> Zeros]
    /\ row_carry_out' = [t \in Tids |-> NoRow]
    /\ value_carry_out' = [t \in Tids |-> NoSlot]
    /\ fix_tid' = 0
    /\ y_writes' = [j \in DOMAIN y_writes |-> <<>>]
    /\ fix_log' = <<>>
    /\ y_log' = [r \in Rows |-> <<>>]
    /\ nz_log' = [k \in DOMAIN nz_log |-> <<>>]
    /\ nz_pending' = [w \in Workers |-> {}]
    /\ nz_row' = [k \in DOMAIN nz_row |-> <<>>]
    /\ coord_log' = [t \in Tids |-> NoCoord]

\* the caller calls the same kernel again, with matrix ro and an output
\* buffer holding y_in, keeping y_kept of the previous call's output
Recall(ro, y_in, y_kept) ==
    /\ Returned /\ calls < MaxCalls
    /\ calls' = calls + 1
    /\ vector_y_out' = y_in
    /\ y_first' = y_kept
    /\ coord_first' = coord_log
    /\ row_offsets' = ro
    /\ StartCall
    /\ UNCHANGED <<kernel, num_threads, team, num_vectors, num_rows,
                   g_output_row_major, g_input_row_major, driver,
                   x_row_major, xt_index, x_writes, alpha, beta>>

\* the warm-up call followed by a call of the re-populate and timing loops,
\* on the Y the warm-up call left
CallAgain == Recall(row_offsets, vector_y_out, vector_y_out)

SpecTwice == Init /\ [][Next \/ CallAgain]_vars

\* C13: the Y a kernel call leaves does not depend on what Y held before the
\* call: a second call on the same output buffer, with the same matrix, X,
\* num_vectors and num_threads, leaves Y as the first call left it.
C13_SecondCallSameResult ==
    (calls > 1 /\ Returned) => vector_y_out = y_first

\* ------------------------------------------------------------------------
\* Two matrices of one shape
\* ------------------------------------------------------------------------

\* the CSR matrices with the rows and the nonzeros of the current one
SameShape ==
    {ro \in [0 .. num_rows -> 0 .. num_nonzeros] :
        ValidCsr(num_rows, ro) /\ ro[num_rows] = num_nonzeros}

\* the kernel is run again with the same num_threads on a matrix of the
\* same shape: a warm-up call, on a buffer the harness has filled with -1
CallOnOther ==
    \E ro \in SameShape :
        Recall(ro, [j \in DOMAIN vector_y_out |-> YPoison], <<>>)

SpecShape == Init /\ [][Next \/ CallOnOther]_vars

\* both calls have computed the coordinates of iteration tid
Partitioned(tid) == calls > 1 /\ LoadBalanced /\ coord_log[tid] # NoCoord

\* C14 as stated: two matrices that agree on (num_rows, num_nonzeros,
\* num_threads) get identical (x, y) start and end coordinates for every
\* thread of the merge-path and nonzero-split kernels.
C14_SameShapeSameCoordinates ==
    \A tid \in Tids :
        Partitioned(tid) =>
            /\ coord_log[tid].start = coord_first[tid].start
            /\ coord_log[tid].end = coord_first[tid].end

\* C14, amended: the shape determines where each thread's range starts and
\* ends along the split axis: the start and end diagonals x + y of the
\* merge-path kernel and the start and end nonzero indices y of the
\* nonzero-split kernel.
C14_SameShapeSameSplit ==
    \A tid \in Tids :
        Partitioned(tid) =>
            LET now == coord_log[tid]
                was == coord_first[tid]
            IN  /\ now.sd = was.sd /\ now.ed = was.ed
                /\ kernel = "merge" =>
                      /\ now.start.x + now.start.y = was.start.x + was.start.y
                      /\ now.end.x + now.end.y = was.end.x + was.end.y
                      /\ now.start.x + now.start.y = now.sd
                      /\ now.end.x + now.end.y = now.ed
                /\ kernel = "nzsplit" =>
                      /\ now.start.y = was.start.y /\ now.end.y = was.end.y
                      /\ now.start.y = now.sd /\ now.end.y = now.ed

C14_Witness ==
    /\ kernel = "merge" /\ num_threads > 1
    /\ \A tid \in Tids : Partitioned(tid)
    /\ \E tid \in Tids : coord_log[tid].end # coord_first[tid].end

\* ------------------------------------------------------------------------
\* The driver RunTests
\* ------------------------------------------------------------------------

\* the kernels in the order RunTests tests them
Tests == <<"rowpar", "merge", "nzsplit", "vendor">>

\* the vector_y_in RunTests fills for SpmvGold
vector_y_in(row) == 1

\* SpmvGold, one row: partial = beta * y_in[row], then the row's nonzeros
RECURSIVE SpmvGoldRow(_, _, _)
SpmvGoldRow(partial, offset, to) ==
    IF offset < to
    THEN SpmvGoldRow(partial + alpha * values(offset) * vector_x(column_indices(offset)),
                     offset + 1, to)
    ELSE partial

SpmvGold ==
    [row \in Rows |->
        SpmvGoldRow(beta * vector_y_in(row), row_offsets[row], row_offsets[row + 1])]

\* CompareResults(computed, reference, len): nonzero when an element differs
CompareResults(computed, reference, len) ==
    IF \E i \in 0 .. len - 1 : computed[i] # reference[i] THEN 1 ELSE 0

\* what mkl_sparse_d_mm leaves in Y: the row-major product, beta = 0
MKLCsrmm ==
    [j \in DOMAIN vector_y_out |-> RowProduct(j \div num_vectors, j % num_vectors)]

Event(ev, k, verdict) == [ev |-> ev, kernel |-> k, verdict |-> verdict]

CheckAnswer_whenquiet(k, y) ==
    IF g_quiet
    THEN <<Event("compare", k,
                 IF CompareResults(reference_vector_y_out, y, num_rows) # 0
                 THEN "FAIL" ELSE "PASS")>>
    ELSE <<>>

\* "Check answer": printed only when not quiet
CheckAnswer(k, y) ==
    IF ~g_quiet
    THEN <<Event("compare", k,
                 IF CompareResults(reference_vector_y_out, y, num_rows) # 0
                 THEN "FAIL" ELSE "PASS")>>
    ELSE <<>>

Repeat(e, n) == [i \in 1 .. n |-> e]

InitDriver ==
    /\ kernel = "rowpar"
    /\ InitArguments
    /\ g_output_row_major = TRUE
    /\ g_input_row_major = TRUE
    /\ \E s \in StaleWords :
          vector_y_out = [j \in 0 .. num_rows * num_vectors - 1 |-> s]
    /\ phase = "returned"
    /\ InitLocals
    /\ InitCaller
    /\ g_quiet \in BOOLEAN
    /\ timing_iterations \in 0 .. MaxTimingIterations
    /\ reference_vector_y_out = <<>>
    /\ h_pc = "reference"
    /\ h_test = 1
    /\ h_it = 0
    /\ h_log = <<>>
    /\ alpha = 1
    /\ beta = 0
    /\ x_row_major = FilledRowMajor
    /\ xt_index = [w \in Workers |-> 0]
    /\ x_writes = [j \in DOMAIN x_row_major |-> {}]

call == <<phase, cur, pc, thread_coord, thread_coord_end, running_total,
          row_carry_out, value_carry_out, fix_tid, history>>

arguments == <<num_threads, team, num_vectors, num_rows, row_offsets,
               g_output_row_major, g_input_row_major, x_row_major, xt_index, x_writes, alpha, beta>>

\* "Compute reference answer"
ComputeReference ==
    /\ h_pc = "reference"
    /\ reference_vector_y_out' = SpmvGold
    /\ h_log' = Append(h_log, Event("reference", "gold", "none"))
    /\ h_pc' = "test"
    /\ UNCHANGED <<kernel, arguments, vector_y_out, call, caller, g_quiet,
                   timing_iterations, h_test, h_it>>

\* RunTests enters the test function of the next OpenMP kernel, which fills
\* Y with -1
BeginTest ==
    /\ h_pc = "test" /\ h_test <= 3
    /\ kernel' = Tests[h_test]
    /\ vector_y_out' = [j \in DOMAIN vector_y_out |-> YPoison]
    /\ h_pc' = "warmup"
    /\ UNCHANGED <<arguments, call, caller, g_quiet, timing_iterations,
                   reference_vector_y_out, h_test, h_it, h_log>>

\* "Warmup/correctness": the first call of the kernel
WarmUpCall ==
    /\ h_pc = "warmup"
    /\ StartCall
    /\ h_log' = Append(h_log, Event("warmup", kernel, "none"))
    /\ h_pc' = "check"
    /\ UNCHANGED <<kernel, arguments, vector_y_out, caller, g_quiet,
                   timing_iterations, reference_vector_y_out, h_test, h_it>>

CheckStep_fatal ==
    /\ h_pc = "check" /\ Returned
    /\ h_log' = h_log \o CheckAnswer(kernel, vector_y_out)
    /\ h_pc' = IF \E n \in 1 .. Len(h_log') : h_log'[n].verdict = "FAIL"
               THEN "done" ELSE "repopulate"
    /\ h_it' = 0
    /\ UNCHANGED <<kernel, arguments, vector_y_out, call, caller, g_quiet,
                   timing_iterations, reference_vector_y_out, h_test>>

\* the warm-up call has returned: the verdict, if any, then on to the loops
CheckStep ==
    /\ h_pc = "check" /\ Returned
    /\ h_log' = h_log \o CheckAnswer(kernel, vector_y_out)
    /\ h_pc' = "repopulate"
    /\ h_it' = 0
    /\ UNCHANGED <<kernel, arguments, vector_y_out, call, caller, g_quiet,
                   timing_iterations, reference_vector_y_out, h_test>>

\* one call of the "Re-populate caches" loop or of the "Timing" loop
LoopCall(loop, ev) ==
    /\ h_pc = loop /\ Returned /\ h_it < timing_iterations
    /\ StartCall
    /\ h_it' = h_it + 1
    /\ h_log' = Append(h_log, Event(ev, kernel, "none"))
    /\ UNCHANGED <<kernel, arguments, vector_y_out, caller, g_quiet,
                   timing_iterations, reference_vector_y_out, h_pc, h_test>>

RepopulateCall == LoopCall("repopulate", "repopulate")

\* the re-populate loop is over: timer.Start()
TimerStart ==
    /\ h_pc = "repopulate" /\ Returned /\ ~(h_it < timing_iterations)
    /\ h_pc' = "timing"
    /\ h_it' = 0
    /\ UNCHANGED <<kernel, arguments, vector_y_out, call, caller, g_quiet,
                   timing_iterations, reference_vector_y_out, h_test, h_log>>

TimedCall == LoopCall("timing", "timed")

\* the timing loop is over: the test function returns and DisplayPerf reports
DisplayPerf ==
    /\ h_pc = "timing" /\ Returned /\ ~(h_it < timing_iterations)
    /\ h_log' = Append(h_log, Event("perf", kernel, "none"))
    /\ h_test' = h_test + 1
    /\ h_pc' = IF h_test < 3 THEN "test"
               ELSE IF g_input_row_major = g_output_row_major THEN "vendor"
               ELSE "done"
    /\ UNCHANGED <<kernel, arguments, vector_y_out, call, caller, g_quiet,
                   timing_iterations, reference_vector_y_out, h_it>>

\* TestMKLCsrmm and its DisplayPerf: the library calls are single steps
TestMKLCsrmm ==
    /\ h_pc = "vendor"
    /\ kernel' = "vendor"
    /\ vector_y_out' = MKLCsrmm
    /\ h_log' = h_log \o <<Event("warmup", "vendor", "none")>>
                      \o CheckAnswer("vendor", MKLCsrmm)
                      \o Repeat(Event("repopulate", "vendor", "none"), timing_iterations)
                      \o Repeat(Event("timed", "vendor", "none"), timing_iterations)
                      \o <<Event("perf", "vendor", "none")>>
    /\ h_test' = h_test + 1
    /\ h_pc' = "done"
    /\ UNCHANGED <<arguments, call, caller, g_quiet, timing_iterations,
                   reference_vector_y_out, h_it>>

\* a kernel call in progress takes the steps of the kernel
KernelStep == phase # "returned" /\ Next

NextDriver ==
    \/ KernelStep
    \/ ComputeReference
    \/ BeginTest
    \/ WarmUpCall
    \/ CheckStep
    \/ RepopulateCall
    \/ TimerStart
    \/ TimedCall
    \/ DisplayPerf
    \/ TestMKLCsrmm

SpecDriver == InitDriver /\ [][NextDriver]_vars

\* the positions of h_log holding event ev of kernel k, after position n
EventsAfter(n, ev, k) ==
    {m \in n + 1 .. Len(h_log) : h_log[m].ev = ev /\ h_log[m].kernel = k}

\* the kernels DisplayPerf has reported, in order
Reported == SelectSeq(h_log, LAMBDA e : e.ev = "perf")

TestIndex(k) == CHOOSE i \in 1 .. Len(Tests) : Tests[i] = k

\* C17: a FAIL verdict ends nothing: the kernels are reported in the order
\* row-parallel, merge-path, nonzero-split, vendor; the run stops only when
\* all four are reported; and once it has stopped, every kernel that got a
\* FAIL has run its timing loop in full and it and every later kernel have
\* been reported after that verdict.
C17_DivergenceNotFatal ==
    /\ Len(Reported) <= Len(Tests)
    /\ \A i \in 1 .. Len(Reported) : Reported[i].kernel = Tests[i]
    /\ h_pc = "done" => Len(Reported) = Len(Tests)
    /\ h_pc # "done" => ENABLED NextDriver
    /\ \A n \in 1 .. Len(h_log) :
          (h_log[n].verdict = "FAIL" /\ h_pc = "done") =>
              /\ Cardinality(EventsAfter(n, "timed", h_log[n].kernel)) = timing_iterations
              /\ \A i \in TestIndex(h_log[n].kernel) .. Len(Tests) :
                    Cardinality(EventsAfter(n, "perf", Tests[i])) = 1

C17_Witness ==
    /\ h_pc = "done" /\ timing_iterations > 0
    /\ \E n \in 1 .. Len(h_log) :
          /\ h_log[n].verdict = "FAIL" /\ h_log[n].kernel = "merge"
          /\ EventsAfter(n, "perf", "vendor") # {}

\* the reference is computed once, and before anything else the driver does
ReferenceOnceAndFirst ==
    /\ Cardinality({n \in 1 .. Len(h_log) : h_log[n].ev = "reference"})
           = (IF h_pc = "reference" THEN 0 ELSE 1)
    /\ h_log # <<>> => h_log[1].ev = "reference"
    /\ h_pc # "reference" => reference_vector_y_out = SpmvGold

\* before position n the driver compared kernel k's warm-up output
ComparedBefore(n, k) ==
    \E m \in 1 .. n - 1 :
        /\ h_log[m].ev = "compare" /\ h_log[m].kernel = k
        /\ \E w \in 1 .. m - 1 : h_log[w].ev = "warmup" /\ h_log[w].kernel = k

\* C18 as stated: the reference is computed exactly once, before the first
\* kernel runs, and in every configuration, verbose or quiet, each kernel's
\* warm-up output is compared against it before the kernel's first timed
\* repetition starts.
C18_ComparedBeforeTimed ==
    /\ ReferenceOnceAndFirst
    /\ \A n \in 1 .. Len(h_log) :
          h_log[n].ev = "timed" => ComparedBefore(n, h_log[n].kernel)

\* C18, amended: the reference is computed exactly once, before the first
\* kernel runs; when g_quiet is false each kernel's warm-up output is compared
\* against it after the warm-up call and before any call of the kernel's
\* re-populate and timing loops; when g_quiet is true nothing is compared.
C18_ComparedBeforeTimedUnlessQuiet ==
    /\ ReferenceOnceAndFirst
    /\ \A n \in 1 .. Len(h_log) :
          /\ (~g_quiet /\ h_log[n].ev \in {"repopulate", "timed", "perf"})
                => ComparedBefore(n, h_log[n].kernel)
          /\ g_quiet => h_log[n].ev # "compare"
          /\ h_log[n].ev = "compare" =>
                /\ Cardinality(EventsAfter(0, "compare", h_log[n].kernel)) = 1
                /\ \A m \in 1 .. n - 1 :
                      h_log[m].kernel = h_log[n].kernel => h_log[m].ev = "warmup"

C18_Witness ==
    /\ h_pc = "done" /\ ~g_quiet /\ timing_iterations > 0
    /\ \A i \in 1 .. Len(Tests) : EventsAfter(0, "timed", Tests[i]) # {}

\* ------------------------------------------------------------------------
\* Input and output layouts
\* ------------------------------------------------------------------------

\* what an uninitialised private xt_index can hold when a worker starts
StaleIndex == {0, 1}

\* the inner loop of the prepass for column i: vector_x[i], vector_x[i +
\* num_cols], ... go to consecutive elements from xt; n counts the copies.
\* A copy past the end of the buffer lands outside it.
RECURSIVE TransposeColumn(_, _, _, _)
TransposeColumn(xrm, xt, i, n) ==
    IF n < num_vectors
    THEN TransposeColumn(
             IF xt \in DOMAIN xrm
             THEN [xrm EXCEPT ![xt] = vector_x(i + n * NumCols)]
             ELSE xrm,
             xt + 1, i, n + 1)
    ELSE [xrm |-> xrm, xt |-> xt]

\* OmpCsrSpmmT with column-major input: one iteration of the transposing loop
PrepassStep(w) ==
    /\ kernel = "rowpar" /\ phase = "prepass" /\ Running(w)
    /\ LET got == TransposeColumn(x_row_major, xt_index[w], cur[w], 0) IN
           /\ x_row_major' = got.xrm
           /\ xt_index' = [xt_index EXCEPT ![w] = got.xt]
           /\ x_writes' = [j \in DOMAIN x_writes |->
                              IF xt_index[w] <= j /\ j < got.xt
                              THEN x_writes[j] \cup {w} ELSE x_writes[j]]
    /\ cur' = [cur EXCEPT ![w] = @ + 1]
    /\ UNCHANGED <<kernel, num_threads, team, num_vectors, num_rows, row_offsets,
                   g_output_row_major, g_input_row_major, caller, driver,
                   vector_y_out, phase, pc, thread_coord, thread_coord_end,
                   running_total, row_carry_out, value_carry_out, fix_tid,
                   history, alpha, beta>>

\* the barrier of the transposing loop; the row loop is dealt to the team
PrepassJoin ==
    /\ phase = "prepass" /\ BarrierReached
    /\ phase' = "parallel"
    /\ cur' = [w \in Workers |-> StaticStart(num_rows, w)]
    /\ UNCHANGED <<inputs, vector_y_out, pc, thread_coord, thread_coord_end,
                   running_total, row_carry_out, value_carry_out, fix_tid,
                   history>>

\* one call of one kernel under any of the four layout combinations; with
\* column-major input RunTests leaves vector_x_row_major unfilled
InitLayout ==
    /\ kernel \in Kernels
    /\ InitNoDriver
    /\ InitArguments
    /\ g_output_row_major \in BOOLEAN
    /\ g_input_row_major \in BOOLEAN
    /\ x_row_major \in (IF g_input_row_major THEN {FilledRowMajor}
                        ELSE {[j \in 0 .. NumCols * num_vectors - 1 |-> s] :
                                  s \in StaleWords})
    /\ phase = (IF kernel = "rowpar" /\ ~g_input_row_major
                THEN "prepass" ELSE "parallel")
    /\ xt_index \in (IF phase = "prepass" THEN [Workers -> StaleIndex]
                     ELSE {[w \in Workers |-> 0]})
    /\ x_writes = [j \in DOMAIN x_row_major |-> {}]
    /\ vector_y_out = [j \in 0 .. num_rows * num_vectors - 1 |-> YPoison]
    /\ InitLocals
    /\ InitCaller

NextLayout ==
    \/ \E w \in Workers : PrepassStep(w)
    \/ PrepassJoin
    \/ Next

SpecLayout == InitLayout /\ [][NextLayout]_vars

\* every addition of the fix-up read the running total that was saved
RetainedReads ==
    \A n \in 1 .. Len(fix_log) :
        \A v \in Vecs : fix_log[n].val[v] = CarryOutOf(fix_log[n].tid, v)

\* the logical result the kernel yields when both layouts are row-major
LayoutFreeY(r, v) ==
    IF kernel = "rowpar" THEN RowProduct(r, v) ELSE ScheduleFreeY(r, v)

\* C12: for a fixed matrix, logical X and num_threads, each kernel run on its
\* own yields the same logical Y(r, v) under all four combinations of
\* g_input_row_major and g_output_row_major, Y(r, v) being read at
\* r*num_vectors + v for row-major and at r + v*num_rows for column-major
\* output (carry-outs read as they were saved).
C12_LayoutIndependent ==
    (Returned /\ RetainedReads) =>
        \A r \in Rows, v \in Vecs :
            vector_y_out[OutIndex(r, v, g_output_row_major)] = LayoutFreeY(r, v)

\* ------------------------------------------------------------------------
\* Buffers of other sizes
\* ------------------------------------------------------------------------

\* the sizes the arguments imply
XSize == NumCols * num_vectors
YSize == num_rows * num_vectors

\* one call of one kernel by a caller whose X and Y buffers may be longer
\* than the arguments imply; the kernels receive the pointers alone
InitSizes ==
    /\ kernel \in Kernels
    /\ InitNoDriver
    /\ InitArguments
    /\ g_output_row_major \in (IF kernel = "rowpar" THEN BOOLEAN ELSE {TRUE})
    /\ g_input_row_major = TRUE
    /\ \E x_len \in XSize .. XSize + MaxSlack, s \in StaleWords :
          x_row_major = [j \in 0 .. x_len - 1 |->
                            IF j < XSize THEN vector_x(j) ELSE s]
    /\ xt_index = [w \in Workers |-> 0]
    /\ x_writes = [j \in DOMAIN x_row_major |-> {}]
    /\ \E y_len \in YSize .. YSize + MaxSlack :
          vector_y_out = [j \in 0 .. y_len - 1 |-> YPoison]
    /\ phase = "parallel"
    /\ InitLocals
    /\ InitCaller

SpecSizes == InitSizes /\ [][Next]_vars

\* a buffer's size is not the one the arguments imply
SizeMismatch ==
    \/ Cardinality(DOMAIN x_row_major) # XSize
    \/ Cardinality(DOMAIN vector_y_out) # YSize

\* C19: a kernel call whose X or Y buffer size is inconsistent with num_cols,
\* num_rows or num_vectors ends before any thread of the parallel phase runs:
\* no iteration is started, nothing is logged and no element of Y is written.
C19_MismatchStopsBeforeDispatch ==
    SizeMismatch =>
        /\ \A w \in Workers : cur[w] = ChunkStart(w) /\ pc[w] = "begin"
        /\ \A t \in Tids : coord_log[t] = NoCoord
        /\ \A j \in DOMAIN vector_y_out : vector_y_out[j] = YPoison
        /\ phase # "fixup"

\* ------------------------------------------------------------------------
\* Carry-out storage
\* ------------------------------------------------------------------------

\* the iterations that have saved their carry-out
Saved == {tid \in Tids : value_carry_out[tid] # NoSlot}

\* C21: in the merge-path and nonzero-split kernels, whichever worker runs
\* which iteration, the accumulator recorded for iteration tid still holds the
\* running total tid had when it finished, from the moment it is saved until
\* the fix-up has read it, and that total is what the fix-up adds for tid.
C21_CarryOutKept ==
    LoadBalanced =>
        /\ \A tid \in Saved :
              (phase # "returned" /\ fix_tid <= tid /\ tid < FixUpCount) =>
                  \A v \in Vecs :
                      running_total[value_carry_out[tid]][v] = CarryOutOf(tid, v)
        /\ \A n \in 1 .. Len(fix_log) :
              \A v \in Vecs : fix_log[n].val[v] = CarryOutOf(fix_log[n].tid, v)

\* ------------------------------------------------------------------------
\* The transposing prepass
\* ------------------------------------------------------------------------

\* the prepass of OmpCsrSpmmT has run and its barrier is passed
PrepassDone == kernel = "rowpar" /\ ~g_input_row_major /\ phase # "prepass"

\* C22: with column-major input, once the prepass of OmpCsrSpmmT is over
\* vector_x_row_major[c*num_vectors + v] = vector_x[c + v*num_cols] for every
\* column c and vector v, for every num_threads and every assignment of
\* iterations to workers, and no element of the buffer was written by two
\* workers.
C22_PrepassTransposes ==
    /\ PrepassDone =>
          \A c \in 0 .. NumCols - 1, v \in Vecs :
              x_row_major[c * num_vectors + v] = vector_x(c + v * NumCols)
    /\ \A j \in DOMAIN x_writes : Cardinality(x_writes[j]) <= 1

\* ------------------------------------------------------------------------
\* Postconditions of the path searches
\* ------------------------------------------------------------------------

Diagonals == 0 .. num_merge_items

\* the x of the coordinate where diagonal d crosses the merge path
SplitOf(d) == MergePathSearch(d, num_rows, num_nonzeros)

SplitStrictly(d, x) ==
    /\ row_offsets[x] <= d - x
    /\ x < num_rows => row_offsets[x + 1] > d - x

SplitAt(d, x) ==
    /\ row_offsets[x] <= d - x
    /\ x < num_rows => row_offsets[x + 1] >= d - x

\* C23: for every diagonal d in [0, num_rows + num_nonzeros] MergePathSearch
\* returns the unique x with row_offsets[x] <= d - x and, when x < num_rows,
\* row_offsets[x+1] > d - x.
C23_SplitStrictlyBelowRowEnd ==
    \A d \in Diagonals :
        /\ SplitStrictly(d, SplitOf(d).x)
        /\ \A x \in 0 .. num_rows : SplitStrictly(d, x) => x = SplitOf(d).x

\* C23 (amended): for every diagonal d in [0, num_rows + num_nonzeros]
\* MergePathSearch returns the unique x in [0, num_rows] with
\* row_offsets[x] <= d - x and, when x < num_rows, row_offsets[x+1] >= d - x:
\* the path may stop at the end of row x without having left it.
C23_SplitAtOrBelowRowEnd ==
    /\ \A d \in Diagonals :
          /\ SplitAt(d, SplitOf(d).x)
          /\ \A x \in 0 .. num_rows : SplitAt(d, x) => x = SplitOf(d).x
    /\ kernel = "merge" =>
          \A tid \in Tids :
              coord_log[tid] # NoCoord =>
                  /\ SplitAt(coord_log[tid].sd, coord_log[tid].start.x)
                  /\ SplitAt(coord_log[tid].ed, coord_log[tid].end.x)

\* a thread of the merge-path kernel starts at the end of a row it has not left
C23_Witness ==
    /\ kernel = "merge"
    /\ \E tid \in Tids :
          /\ coord_log[tid] # NoCoord
          /\ coord_log[tid].start.x < num_rows
          /\ coord_log[tid].start.y > 0
          /\ row_offsets[coord_log[tid].start.x + 1] = coord_log[tid].start.y

\* C24: for every diagonal d the coordinate of MergePathSearch has x + y = d,
\* max(d - num_nonzeros, 0) <= x <= min(d, num_rows), 0 <= y <= num_nonzeros,
\* and x and y do not decrease as d grows.
C24_CoordinateOnDiagonal ==
    /\ \A d \in Diagonals :
          /\ SplitOf(d).x + SplitOf(d).y = d
          /\ Max(d - num_nonzeros, 0) <= SplitOf(d).x
          /\ SplitOf(d).x <= Min(d, num_rows)
          /\ 0 <= SplitOf(d).y /\ SplitOf(d).y <= num_nonzeros
          /\ d + 1 \in Diagonals =>
                /\ SplitOf(d).x <= SplitOf(d + 1).x
                /\ SplitOf(d).y <= SplitOf(d + 1).y
    /\ kernel = "merge" =>
          \A tid \in Tids :
              coord_log[tid] # NoCoord =>
                  /\ coord_log[tid].start.x + coord_log[tid].start.y = coord_log[tid].sd
                  /\ coord_log[tid].end.x + coord_log[tid].end.y = coord_log[tid].ed
                  /\ coord_log[tid].start.x <= coord_log[tid].end.x
                  /\ coord_log[tid].start.y <= coord_log[tid].end.y

\* three threads of the merge-path kernel, the middle one starting inside the
\* grid and advancing in both directions
C24_Witness ==
    /\ kernel = "merge" /\ Returned /\ num_threads = 3
    /\ 0 < coord_log[1].start.x /\ coord_log[1].start.x < coord_log[1].end.x
    /\ 0 < coord_log[1].start.y /\ coord_log[1].start.y < coord_log[1].end.y

RowOfPosition(y) == RowPathSearch(y, num_rows)

\* C25: for every boundary y in [1, num_nonzeros] RowPathSearch sets x to the
\* row that contains nonzero position y - 1,
\* row_offsets[x] <= y - 1 < row_offsets[x+1], and leaves y unchanged; for
\* y = 0 it sets x = 0.
C25_RowContainsPosition ==
    /\ \A y \in 1 .. num_nonzeros :
          /\ RowOfPosition(y).x < num_rows
          /\ row_offsets[RowOfPosition(y).x] <= y - 1
          /\ y - 1 < row_offsets[RowOfPosition(y).x + 1]
          /\ RowOfPosition(y).y = y
    /\ RowOfPosition(0) = [x |-> 0, y |-> 0]
    /\ kernel = "nzsplit" =>
          \A tid \in Tids :
              coord_log[tid] # NoCoord =>
                  /\ coord_log[tid].start = RowOfPosition(coord_log[tid].sd)
                  /\ coord_log[tid].end = RowOfPosition(coord_log[tid].ed)

\* a thread of the nonzero-split kernel starts after a nonzero of a row other
\* than row 0, and another (or the same) starts at position 0
C25_Witness ==
    /\ kernel = "nzsplit" /\ Returned
    /\ \E tid \in Tids :
          /\ coord_log[tid].sd >= 1
          /\ coord_log[tid].start.x >= 1
          /\ row_offsets[coord_log[tid].start.x] <= coord_log[tid].sd - 1
    /\ coord_log[0].sd = 0

\* ------------------------------------------------------------------------
\* When a carry-out is recorded
\* ------------------------------------------------------------------------

\* iteration tid ends after some, and before the last, nonzero of a row
EndsInsideRow(tid) ==
    LET end == coord_log[tid].end IN
        /\ end.x < num_rows
        /\ row_offsets[end.x] < end.y
        /\ end.y < row_offsets[end.x + 1]

\* the iterations whose slot the fix-up has added
Added == {fix_log[n].tid : n \in 1 .. Len(fix_log)}

\* C26: in the merge-path and nonzero-split kernels a thread's carry-out slot
\* is populated with a valid row, and later added by the fix-up, only when the
\* thread's range ends strictly inside a row; a thread that ends on a row
\* boundary or has an empty range records no carry-out for a valid row.
C26_CarryOutOnlyInsideRow ==
    LoadBalanced =>
        /\ \A tid \in Saved : row_carry_out[tid] < num_rows => EndsInsideRow(tid)
        /\ \A tid \in Added : EndsInsideRow(tid)

\* the nonzeros of its end row that iteration tid multiplies
NonzerosOfEndRow(tid) ==
    LET c == coord_log[tid] IN
        {k \in 0 .. num_nonzeros - 1 :
            /\ c.start.y <= k /\ k < c.end.y
            /\ c.start.x < c.end.x => row_offsets[c.end.x] <= k}

\* C26 (amended): every thread records its end row and its running total in
\* its slot, whatever its range; the fix-up adds the slot of every thread but
\* the last whose end row is below num_rows, also when the range is empty or
\* ends on a row boundary; the total a thread saves is zero unless it
\* multiplied a nonzero of its end row, which may be the row's last.
C26_CarryOutAlwaysRecorded ==
    LoadBalanced =>
        /\ \A tid \in Tids :
              (coord_log[tid] # NoCoord /\ (cur[CHOOSE w \in Workers :
                   ChunkStart(w) <= tid /\ tid < ChunkEnd(w)] > tid)) =>
                  /\ tid \in Saved
                  /\ row_carry_out[tid] = coord_log[tid].end.x
        /\ Added = {tid \in 0 .. fix_tid - 1 : coord_log[tid].end.x < num_rows}
        /\ \A w \in Workers :
              (Running(w) /\ pc[w] = "save" /\ NonzerosOfEndRow(cur[w]) = {}) =>
                  running_total[w] = Zeros

\* the fix-up has added the slot of a thread whose range ended on a row
\* boundary, and of one that ended having consumed the last nonzero of a row
C26_Witness ==
    /\ LoadBalanced /\ Returned
    /\ \E tid \in Added :
          coord_log[tid].end.y = row_offsets[coord_log[tid].end.x]
    /\ \E tid \in Added :
          /\ coord_log[tid].end.y = row_offsets[coord_log[tid].end.x + 1]
          /\ NonzerosOfEndRow(tid) # {}

\* ------------------------------------------------------------------------
\* What the parallel loops write
\* ------------------------------------------------------------------------

\* the state the workers of a team share besides Y: the CSR matrix, the
\* scratch copy of X and the two carry-out arrays
csr == <<num_rows, num_vectors, row_offsets>>
carry_out == <<row_carry_out, value_carry_out>>

InParallelLoop == phase \in {"prepass", "parallel"}

RowsCompleted(tid) ==
    UNION {{<<r, n>> : n \in {m \in 1 .. Len(y_writes[RowMajorIndex(r, 0)]) :
                                 y_writes[RowMajorIndex(r, 0)][m][2] = tid}} :
           r \in Rows}

\* the nonzeros iteration tid multiplied: one entry per multiplication
NonzerosMultiplied(tid) ==
    UNION {{<<k, n>> : n \in {m \in 1 .. Len(nz_log[k]) : nz_log[k][m] = tid}} :
           k \in DOMAIN nz_log}

ItemsConsumed(tid) ==
    Cardinality(RowsCompleted(tid)) + Cardinality(NonzerosMultiplied(tid))

\* C28: in the merge-path kernel every thread consumes at most
\* ceil((num_rows + num_nonzeros) / num_threads) merge items, rows completed
\* plus nonzeros multiplied, and once it is done that number is
\* end_diagonal - start_diagonal; in the nonzero-split kernel every thread
\* multiplies at most ceil(num_nonzeros / num_threads) nonzeros.
C28_BalanceBound ==
    /\ kernel = "merge" =>
          \A tid \in Tids :
              /\ ItemsConsumed(tid) * num_threads < num_merge_items + num_threads
              /\ ItemsConsumed(tid) <= MergeItemsPerThread
              /\ tid \in Saved =>
                    ItemsConsumed(tid) = coord_log[tid].ed - coord_log[tid].sd
    /\ kernel = "nzsplit" =>
          \A tid \in Tids :
              /\ Cardinality(NonzerosMultiplied(tid)) * num_threads
                     < num_nonzeros + num_threads
              /\ tid \in Saved =>
                    Cardinality(NonzerosMultiplied(tid))
                        = coord_log[tid].ed - coord_log[tid].sd

\* a thread of the merge-path kernel has completed a row and multiplied a
\* nonzero and used its whole share, while another had less than a share left
C28_Witness ==
    /\ kernel = "merge" /\ Returned /\ num_threads > 1
    /\ \E tid \in Tids :
          /\ RowsCompleted(tid) # {} /\ NonzerosMultiplied(tid) # {}
          /\ ItemsConsumed(tid) = MergeItemsPerThread
    /\ \E tid \in Tids : ItemsConsumed(tid) < MergeItemsPerThread

\* ------------------------------------------------------------------------
\* Capacity of the carry-out arrays
\* ------------------------------------------------------------------------

\* "Save carry-outs" of an iteration whose tid is past the end of the arrays:
\* the two stores land in whatever follows them on the stack.  The call may
\* crash, go on with nothing it reads changed, or find a slot of
\* value_carry_out overwritten.
SaveCarryOutBeyond(w) ==
    /\ kernel \in {"merge", "nzsplit"} /\ Running(w) /\ pc[w] = "save"
    /\ ~(cur[w] < CarryOutCapacity)
    /\ \E outcome \in {"crash", "lost", "clobber"} :
          /\ phase' = IF outcome = "crash" THEN "crashed" ELSE phase
          /\ cur' = IF outcome = "crash"
                    THEN [v \in Workers |-> ChunkEnd(v)]
                    ELSE [cur EXCEPT ![w] = @ + 1]
          /\ value_carry_out' =
                IF outcome = "clobber"
                THEN [value_carry_out EXCEPT ![cur[w] - CarryOutCapacity] = NoSlot]
                ELSE value_carry_out
    /\ nz_row' = LogAttributed(nz_pending[w], thread_coord_end[w].x)
    /\ nz_pending' = [nz_pending EXCEPT ![w] = {}]
    /\ pc' = [pc EXCEPT ![w] = "begin"]
    /\ UNCHANGED <<inputs, vector_y_out, thread_coord, thread_coord_end,
                   running_total, row_carry_out, fix_tid, y_writes, fix_log,
                   y_log, nz_log, coord_log>>

\* one iteration of the fix-up whose tid is past the end of the arrays: the
\* row and the pointer it reads are whatever follows the arrays.  The call
\* may crash, skip the row, or add stale words into a row of Y.
FixUpBeyond ==
    /\ kernel \in {"merge", "nzsplit"}
    /\ phase = "fixup" /\ fix_tid < FixUpCount
    /\ ~(fix_tid < CarryOutCapacity)
    /\ \/ /\ phase' = "crashed"
          /\ UNCHANGED <<vector_y_out, fix_log, y_log>>
       \/ /\ phase' = phase
          /\ UNCHANGED <<vector_y_out, fix_log, y_log>>
       \/ \E row \in Rows, s \in StaleWords :
              LET val == [i \in Vecs |-> s] IN
                /\ phase' = phase
                /\ vector_y_out' = AddInto(vector_y_out, row, val)
                /\ fix_log' = Append(fix_log, [tid |-> fix_tid, row |-> row, val |-> val])
                /\ y_log' = LogRowEvent(row, "add")
    /\ fix_tid' = fix_tid + 1
    /\ UNCHANGED <<inputs, cur, pc, thread_coord, thread_coord_end,
                   running_total, row_carry_out, value_carry_out, y_writes,
                   nz_log, nz_pending, nz_row, coord_log>>

\* TestOmpMergeCsrmm calls OmpMergeCsrmm with g_omp_threads threads: the
\* --threads option or the processor count, here from the capacity upwards;
\* one worker runs the loop, on a matrix of one row
InitCapacity ==
    /\ kernel = "merge"
    /\ InitNoDriver
    /\ num_threads \in CarryOutCapacity .. CarryOutCapacity + MaxExcess
    /\ team = 1
    /\ num_vectors = 1
    /\ num_rows = 1
    /\ row_offsets \in {ro \in [0 .. 1 -> 0 .. 1] : ValidCsr(1, ro)}
    /\ g_output_row_major = TRUE
    /\ g_input_row_major = TRUE
    /\ x_row_major = FilledRowMajor
    /\ xt_index = [w \in Workers |-> 0]
    /\ x_writes = [j \in DOMAIN x_row_major |-> {}]
    /\ vector_y_out = [j \in 0 .. num_rows * num_vectors - 1 |-> YPoison]
    /\ phase = "parallel"
    /\ InitLocals
    /\ InitCaller

NextCapacity ==
    \/ \E w \in Workers : MergeSearchStep(w)
    \/ \E w \in Workers : ConsumeRow(w)
    \/ \E w \in Workers : ConsumePartial(w)
    \/ \E w \in Workers : SaveCarryOut(w)
    \/ \E w \in Workers : SaveCarryOutBeyond(w)
    \/ Join
    \/ FixUp
    \/ FixUpBeyond
    \/ Return

SpecCapacity == InitCapacity /\ [][NextCapacity]_vars

\* C29: every access to row_carry_out and value_carry_out uses an index
\* below their capacity of 256, whatever thread count the kernel is called
\* with.
C29_IndexBelowCapacity ==
    LoadBalanced =>
        /\ \A w \in Workers :
              (Running(w) /\ pc[w] = "save") => cur[w] < CarryOutCapacity
        /\ (phase = "fixup" /\ fix_tid < FixUpCount) => fix_tid < CarryOutCapacity

\* ------------------------------------------------------------------------
\* The scalars alpha and beta
\* ------------------------------------------------------------------------

\* RunTests with the scalars of the command line, not quiet, one worker
InitScalars ==
    /\ kernel = "rowpar"
    /\ InitArguments
    /\ team = 1
    /\ g_output_row_major = TRUE
    /\ g_input_row_major = TRUE
    /\ \E s \in StaleWords :
          vector_y_out = [j \in 0 .. num_rows * num_vectors - 1 |-> s]
    /\ phase = "returned"
    /\ InitLocals
    /\ InitCaller
    /\ g_quiet = FALSE
    /\ timing_iterations \in 0 .. MaxTimingIterations
    /\ reference_vector_y_out = <<>>
    /\ h_pc = "reference"
    /\ h_test = 1
    /\ h_it = 0
    /\ h_log = <<>>
    /\ alpha \in 1 .. MaxAlpha
    /\ beta \in 0 .. MaxBeta
    /\ x_row_major = FilledRowMajor
    /\ xt_index = [w \in Workers |-> 0]
    /\ x_writes = [j \in DOMAIN x_row_major |-> {}]

SpecScalars == InitScalars /\ [][NextDriver]_vars

\* the warm-up call of a test function has returned and is about to be
\* compared
Compared == h_pc = "check" /\ Returned

\* C30: for every alpha and beta, the output of each kernel the harness
\* compares equals beta * Y_in[row] + alpha * sum(values[k] *
\* X[column_indices[k]]) with those alpha and beta, which is what the
\* reference holds.
C30_KernelEqualsScaledReference ==
    Compared =>
        \A r \in Rows :
            /\ reference_vector_y_out[r] = beta * vector_y_in(r) + alpha * RowProduct(r, 0)
            /\ \A v \in Vecs :
                  vector_y_out[RowMajorIndex(r, v)]
                      = beta * vector_y_in(r) + alpha * RowProduct(r, v)

\* ------------------------------------------------------------------------
\* What the verdict covers
\* ------------------------------------------------------------------------

\* "Check answer" of a test function has just printed its verdict on the Y
\* the warm-up call left
Judged == h_pc = "repopulate" /\ h_it = 0 /\ Returned /\ ~g_quiet

Verdict == h_log[Len(h_log)].verdict

\* C31: with row-major output the PASS/FAIL comparison pairs reference[r]
\* with the kernel's output of the same row r, for every row and vector: a
\* kernel whose Y is A*X in every row and vector gets PASS, and one whose
\* output differs from the reference in some row gets FAIL.
C31_VerdictPairsRows ==
    Judged =>
        /\ h_log[Len(h_log)].ev = "compare"
        /\ (\A r \in Rows, v \in Vecs :
               vector_y_out[RowMajorIndex(r, v)] = RowProduct(r, v))
              => Verdict = "PASS"
        /\ (\E r \in Rows, v \in Vecs :
               vector_y_out[RowMajorIndex(r, v)] # reference_vector_y_out[r])
              => Verdict = "FAIL"

====
